---- MODULE Spec2Model ----
(***************************************************************************)
(* payzy-backend: the session manager (app/core/database.py), the user     *)
(* repositories (app/dao/user.py, app/crud/user.py) and the login and      *)
(* registration flows of the auth service (app/services/auth_service.py),  *)
(* as a state machine over a database with READ COMMITTED transactions.    *)
(***************************************************************************)
EXTENDS Integers, FiniteSets, Sequences, TLC

(* ------------------------------ bounds -------------------------------- *)

\* concurrent requests (each runs one unit of work inside get_db)
NumRequests == 2
\* calls of init_db and close over the life of the process
MaxManagerCalls == 3
\* pool_size and max_overflow handed to create_async_engine (settings allow
\* pool_size >= 1, max_overflow >= 0)
DB_POOL_SIZE == 1
DB_MAX_OVERFLOW == 0
\* workers that serve the clients of the token flows, one request at a time
\* each
NumAuthWorkers == 1

\* settings.ACCESS_TOKEN_EXPIRE_MINUTES
ACCESS_TOKEN_EXPIRE_MINUTES == 30

Requests == 1..NumRequests
Engines == 1..MaxManagerCalls
Payload(k, e, p) == [kind |-> k, email |-> e, password |-> p]

\* the payloads a request may carry: logins with the right and a wrong
\* password for the active account a@x.com, the deactivated account b@x.com
\* and the unknown c@x.com; registrations of a taken and of a free email
\* through either repository
Payloads ==
    { Payload("login", e, p) :
        e \in {"a@x.com", "b@x.com"}, p \in {"Abcdef12", "wrong1234"} }
    \cup { Payload("login", "c@x.com", "Abcdef12"),
           Payload("register", "a@x.com", "Abcdef12"),
           Payload("register", "c@x.com", "Abcdef12"),
           Payload("crud_register", "c@x.com", "Abcdef12"),
           Payload("me", "", "") }

\* the payload of the requests that run while the manager is started and
\* shut down: a registration that inserts
CorePayloads == { Payload("register", "c@x.com", "Abcdef12") }

(* ------------------------------ state --------------------------------- *)

VARIABLES
    engine,          \* DatabaseSessionManager._engine (0 is None)
    sessionFactory,  \* DatabaseSessionManager._session_factory (0 is None)
    isInitialized,   \* DatabaseSessionManager._is_initialized
    closePc,         \* close(): "idle", or "disposing" while awaiting dispose()
    disposed,        \* per engine: dispose() has replaced its pool
    initCalls,       \* number of init_db calls made
    closeCalls,      \* number of close calls made
    warnings,        \* "Database already initialized" warnings logged
    lifecycle,       \* history of the calls: which of init_db / close completed last
    db,              \* committed rows of table users
    pc,              \* per request: where its task stands
    req,             \* per request: the payload
    sess,            \* per request: engine its session is bound to (0: no session)
    conn,            \* per request: pool its session's connection came from (0: none)
    pend,            \* per request: rows flushed in the open transaction
    pendLogin,       \* per request: user ids whose last_login the open transaction set
    result,          \* per request: what the service returned (empty: nothing)
    bodyErr,         \* per request: what the unit of work raised at the yield
    outErr,          \* per request: what get_session raised to its caller
    cause,           \* per request: the internal failure behind bodyErr
    calls,           \* per request: commit / rollback / close calls on the session
    acqLife,         \* per request: lifecycle when get_session was entered
    now,             \* the clock, in seconds (datetime.now(timezone.utc))
    token,           \* per request: the bearer token it presents
    tokenData,       \* per request: what verify_token returned or raised
    served,          \* responses of register and login that clients received
    held,            \* per request: the session object get_db's frame holds (0: none)
    probe            \* a direct call of a function of app/core or of the middleware

mgrVars == <<engine, sessionFactory, isInitialized, closePc, disposed,
             initCalls, closeCalls, warnings, lifecycle>>
reqVars == <<pc, req, sess, conn, pend, pendLogin, result, bodyErr, outErr,
             cause, calls, acqLife, held>>
authVars == <<now, token, tokenData, served, probe>>
vars == <<mgrVars, db, reqVars, authVars>>

\* no function is being called directly
NoProbe == [fn |-> "none"]

(* ------------------------- app/core/security.py ----------------------- *)

\* bcrypt reads no more than the first 72 bytes of the secret it is given
BCRYPT_MAX_BYTES == 72

\* the part of a password that the bcrypt scheme of pwd_context (line 13)
\* digests; the characters of the model's passwords are one byte each
BcryptSecret(password) ==
    IF Len(password) > BCRYPT_MAX_BYTES
      THEN SubSeq(password, 1, BCRYPT_MAX_BYTES)
      ELSE password

\* pwd_context.hash: a salted digest of the password
create_password_hash(password, salt) ==
    [scheme |-> "bcrypt", salt |-> salt,
     digest |-> <<salt, BcryptSecret(password)>>]

\* pwd_context.verify: recompute the digest under the stored salt
verify_password(plain_password, hashed_password) ==
    hashed_password.digest =
        <<hashed_password.salt, BcryptSecret(plain_password)>>

\* str(user_id) of the "sub" claim: user ids are UUIDs (entity/user.py, lines
\* 15-17), so the text is the hyphenated hexadecimal form of the id
SubOf(user_id) == <<"uuid_text", user_id>>

\* int(text): the value of a string of decimal digits; the hyphenated text of
\* a UUID is not one, and int raises ValueError
IntOf(text) ==
    IF text[1] = "digits" THEN [raised |-> "none", value |-> text[2]]
    ELSE [raised |-> "ValueError", value |-> 0]

\* "expires_delta or timedelta(minutes=...)", line 57, in minutes: a zero
\* timedelta is falsy and gives way to the configured default
DeltaOrDefault(expires_minutes) ==
    IF expires_minutes = 0 THEN ACCESS_TOKEN_EXPIRE_MINUTES ELSE expires_minutes

\* create_access_token at time t: the claims, signed with settings.SECRET_KEY
create_access_token(user_id, expires_minutes, t) ==
    [form |-> "jwt", key |-> "SECRET_KEY", sub |-> SubOf(user_id),
     exp |-> t + DeltaOrDefault(expires_minutes) * 60, iat |-> t,
     type |-> "access"]

\* jwt.decode at time t: the error it raises, or "none". The signature is
\* checked first, then exp: a token is expired once exp < t
JwtDecodeError(tok, t) ==
    IF tok.form # "jwt" THEN "JWTError"
    ELSE IF tok.key # "SECRET_KEY" THEN "JWTError"
    ELSE IF tok.exp < t THEN "ExpiredSignatureError"
    ELSE "none"

NoTokenData == [kind |-> "None", user_id |-> 0]

\* no bearer token
NoToken ==
    [form |-> "none", key |-> "none", sub |-> <<"absent", 0>>, exp |-> 0,
     iat |-> 0, type |-> "none"]

\* variant: the purpose tag is not checked
verify_token_anytype(tok, t) ==
    IF JwtDecodeError(tok, t) # "none" THEN NoTokenData
    ELSE IF tok.sub[1] = "absent" THEN NoTokenData
    ELSE IF IntOf(tok.sub).raised # "none"
           THEN [kind |-> IntOf(tok.sub).raised, user_id |-> 0]
    ELSE [kind |-> "TokenData", user_id |-> IntOf(tok.sub).value]

\* verify_token, lines 83-103, at time t: TokenData, None, or the exception
\* that leaves the function (only JWTError is caught)
verify_token(tok, t) ==
    IF JwtDecodeError(tok, t) # "none" THEN NoTokenData
    ELSE IF tok.sub[1] = "absent" THEN NoTokenData
    ELSE IF tok.type # "access" THEN NoTokenData
    ELSE IF IntOf(tok.sub).raised # "none"
           THEN [kind |-> IntOf(tok.sub).raised, user_id |-> 0]
    ELSE [kind |-> "TokenData", user_id |-> IntOf(tok.sub).value]

(* --------------------------- the users table -------------------------- *)

\* the columns of UserEntity the model carries
UserEntityColumns ==
    {"user_id", "email", "hashed_password", "is_active", "last_login"}

\* rows present before the process starts: an active and a deactivated account
InitUsers ==
    { [user_id |-> 1, email |-> "a@x.com",
       hashed_password |-> create_password_hash("Abcdef12", 0),
       is_active |-> TRUE, last_login |-> 0],
      [user_id |-> 2, email |-> "b@x.com",
       hashed_password |-> create_password_hash("Abcdef12", 0),
       is_active |-> FALSE, last_login |-> 0] }

\* uuid4 primary key of the row request r inserts: fresh for every insert
NewUserId(r) == Cardinality(InitUsers) + r

\* UserEntity(...) built by create: is_active=True, last_login NULL
NewUser(r, email, password) ==
    [user_id |-> NewUserId(r), email |-> email,
     hashed_password |-> create_password_hash(password, r),
     is_active |-> TRUE, last_login |-> 0]

\* what request r's session reads: committed rows and its own flushed rows
View(r) == db \cup pend[r]

\* the rows after r's transaction commits
Committed(r) ==
    { IF u.user_id \in pendLogin[r] THEN [u EXCEPT !.last_login = r] ELSE u
      : u \in db \cup pend[r] }

(* --------------------------- app/dao/user.py -------------------------- *)

\* variant: the lookup by email finds nothing
get_by_email_none(rows, email) == {}

\* get_by_email, lines 49-54
get_by_email(rows, email) == { u \in rows : u.email = email }

\* get, lines 44-47, called with one keyword argument: the parameter is the
\* keyword-only id, any other keyword is a TypeError at the call; the query
\* names UserEntity.id, an attribute the entity does not define
get(rows, keyword, value) ==
    IF keyword # "id" THEN [raised |-> "TypeError", rows |-> {}]
    ELSE IF "id" \notin UserEntityColumns
           THEN [raised |-> "AttributeError", rows |-> {}]
    ELSE [raised |-> "none", rows |-> { u \in rows : u.user_id = value }]

\* variant: the password check left out
authenticate_nopw(rows, email, password) == get_by_email(rows, email)

\* variant: a deactivated account is returned whatever the password
authenticate_active_first(rows, email, password) ==
    { u \in get_by_email(rows, email) :
        ~u.is_active \/ verify_password(password, u.hashed_password) }

\* authenticate: the row with this email whose stored hash the password verifies
authenticate(rows, email, password) ==
    { u \in get_by_email(rows, email) :
        verify_password(password, u.hashed_password) }

(* ---------------------- app/services/auth_service.py ------------------ *)

\* Base.to_dict / model_to_dict with no exclude_columns: every column of the
\* row, the password hash included
model_to_dict(u) == [c \in UserEntityColumns |-> u[c]]

\* variant: the response schema declares the password hash
UserResponseFields_hash == {"user_id", "email", "is_active", "hashed_password"}

\* the fields UserResponse declares, among the columns the model carries
UserResponseFields == {"user_id", "email", "is_active"}

\* UserResponse.model_validate(user.to_dict()).model_dump(): pydantic keeps
\* the declared fields and ignores every other key of the dict
PublicUser(u) ==
    [f \in UserResponseFields \cap DOMAIN model_to_dict(u) |-> model_to_dict(u)[f]]

\* variant: the failure is passed on as it was raised
Surfaced_raw(kind, raw) == raw

\* what the services turn an unexpected failure into: "except Exception"
\* raises HTTPException 500 with a detail that is a string literal (lines
\* 46-50, 112-117 and 172-177); the crud repository is called with no
\* service around it
Surfaced(kind, raw) == IF kind = "crud_register" THEN raw ELSE "HTTP500_Internal"

\* variant: a deactivated account is let through
LoginError_lenient(found) ==
    IF found = {} THEN "HTTP401_InvalidCredentials" ELSE "none"

\* authenticate_user, lines 74-86: the failure the login raises, or "none"
LoginError(found) ==
    IF found = {} THEN "HTTP401_InvalidCredentials"
    ELSE IF \E u \in found : ~u.is_active THEN "HTTP400_InactiveAccount"
    ELSE "none"

\* variant: expires_in left in minutes
ExpiresIn_minutes(minutes) == minutes

\* authenticate_user, lines 105-106: expires_in in seconds
ExpiresIn(minutes) == minutes * 60

\* authenticate_user, lines 88-108: the envelope returned
LoginResponse(u) ==
    [access_token |->
         create_access_token(u.user_id, ACCESS_TOKEN_EXPIRE_MINUTES, now),
     token_type |-> "bearer",
     expires_in |-> ExpiresIn(ACCESS_TOKEN_EXPIRE_MINUTES),
     user |-> PublicUser(u)]

\* get_current_user, lines 143-177, given what verify_token and user_dao.get
\* gave: the HTTPException raised, or "none"
CurrentUserError(td, got) ==
    IF td.kind = "None" THEN "HTTP401_InvalidCredentials"
    ELSE IF td.kind # "TokenData" THEN Surfaced("me", td.kind)
    ELSE IF got.raised # "none" THEN Surfaced("me", got.raised)
    ELSE IF got.rows = {} THEN "HTTP401_InvalidCredentials"
    ELSE IF \E u \in got.rows : ~u.is_active THEN "HTTP400_InactiveAccount"
    ELSE "none"

\* the internal failure behind a 500 of get_current_user
CurrentUserCause(td, got) ==
    IF td.kind \notin {"None", "TokenData"} THEN td.kind
    ELSE IF td.kind = "TokenData" THEN got.raised
    ELSE "none"

(* ------------------- app/core/database.py: the manager ---------------- *)

\* variant: the guard of init_db never sees an initialized manager
AlreadyInitialized_never == FALSE

\* init_db, line 137
AlreadyInitialized == isInitialized

\* the engine create_async_engine returns: a new one each time (every earlier
\* engine has been disposed by close before the manager builds another)
NewEngine == 1 + Cardinality({ e \in Engines : disposed[e] })

\* init_db, lines 135-178
InitDb ==
    /\ initCalls + closeCalls < MaxManagerCalls
    /\ initCalls' = initCalls + 1
    /\ IF AlreadyInitialized
         THEN /\ warnings' = warnings + 1
              /\ UNCHANGED <<engine, sessionFactory, isInitialized, lifecycle>>
         ELSE /\ engine' = NewEngine
              /\ sessionFactory' = NewEngine
              /\ isInitialized' = TRUE
              /\ lifecycle' = "Initialized"
              /\ UNCHANGED warnings
    /\ UNCHANGED <<closePc, disposed, closeCalls, db, reqVars, authVars>>

\* close, lines 212-216: nothing to do without an engine; otherwise dispose()
\* closes the idle connections and gives the engine a fresh pool (connections
\* checked out stay with their sessions), and close suspends on the await
CloseBegin ==
    /\ closePc = "idle"
    /\ initCalls + closeCalls < MaxManagerCalls
    /\ closeCalls' = closeCalls + 1
    /\ IF engine # 0
         THEN /\ disposed' = [disposed EXCEPT ![engine] = TRUE]
              /\ closePc' = "disposing"
              /\ lifecycle' = "Closing"
         ELSE UNCHANGED <<disposed, closePc, lifecycle>>
    /\ UNCHANGED <<engine, sessionFactory, isInitialized, initCalls, warnings,
                   db, reqVars, authVars>>

\* close, lines 217-220: after the await
CloseFinish ==
    /\ closePc = "disposing"
    /\ engine' = 0
    /\ sessionFactory' = 0
    /\ isInitialized' = FALSE
    /\ closePc' = "idle"
    /\ lifecycle' = "Closed"
    /\ UNCHANGED <<disposed, initCalls, closeCalls, warnings, db, reqVars, authVars>>

(* --------------------- the pool of an engine -------------------------- *)

\* the pool an engine checks out from: replaced by dispose()
CurrentPool(e) == IF disposed[e] THEN 2 * e ELSE 2 * e - 1

CheckedOut(p) == Cardinality({ r \in Requests : conn[r] = p })

\* variant: the overflow limit is not applied
HasCapacity_unbounded(p) == TRUE

\* QueuePool as configured by init_db, lines 143-148: a connection is handed
\* out while fewer than pool_size + max_overflow are checked out
HasCapacity(p) == CheckedOut(p) < DB_POOL_SIZE + DB_MAX_OVERFLOW

\* a statement of r's session can run: it holds a connection or can check one out
CanRun(r) == conn[r] # 0 \/ HasCapacity(CurrentPool(sess[r]))

\* the connection r's session runs its statement on
ConnOf(r) == IF conn[r] # 0 THEN conn[r] ELSE CurrentPool(sess[r])

(* ---------------- app/core/database.py: get_session ------------------- *)

\* variant: any manager hands out a session
NotInitialized_never == FALSE

\* get_session, line 228
NotInitialized == ~isInitialized \/ sessionFactory = 0

\* except Exception does not catch asyncio.CancelledError (a BaseException)
IsException(e) == e # "CancelledError"

\* variant: one session object shared by the whole process
NewSession_shared(r) == 1

\* self._session_factory(), line 233: every call constructs a new AsyncSession,
\* an object distinct from every other live one; request r's is named r
NewSession(r) == r

\* get_session, lines 222-233, entered by get_db for a new request carrying
\* one of the payloads; a request for /me carries one of the tokens instead
Acquire(r, payloads, tokens) ==
    /\ pc[r] = "new"
    /\ \E payload \in payloads :
         /\ req' = [req EXCEPT ![r] = payload]
         /\ \E t \in (IF payload.kind = "me" THEN tokens ELSE {NoToken}) :
              token' = [token EXCEPT ![r] = t]
         /\ IF NotInitialized
              THEN /\ outErr' = [outErr EXCEPT ![r] = "NotInitialized"]
                   /\ pc' = [pc EXCEPT ![r] = "done"]
                   /\ UNCHANGED <<sess, held>>
              ELSE /\ sess' = [sess EXCEPT ![r] = sessionFactory]
                   /\ held' = [held EXCEPT ![r] = NewSession(r)]
                   /\ pc' = [pc EXCEPT ![r] =
                                IF payload.kind = "me" THEN "verify" ELSE "select"]
                   /\ UNCHANGED outErr
    /\ acqLife' = [acqLife EXCEPT ![r] = lifecycle]
    /\ UNCHANGED <<mgrVars, now, tokenData, served, probe, db, conn, pend,
                   pendLogin, result, bodyErr, cause, calls>>

\* variant: whatever "except Exception" does not catch falls through to the commit
AfterRaise_commit(err) == IF IsException(err) THEN "rollback" ELSE "ret"

\* lines 234-243 when the unit of work raises: "except Exception" catches err
\* and rolls back; any other BaseException goes straight to finally
AfterRaise(err) == IF IsException(err) THEN "rollback" ELSE "close"

\* the unit of work raises err at the yield of line 235
Raises(r, err, why) ==
    /\ bodyErr' = [bodyErr EXCEPT ![r] = err]
    /\ outErr' = [outErr EXCEPT ![r] = err]
    /\ cause' = [cause EXCEPT ![r] = why]
    /\ pc' = [pc EXCEPT ![r] = AfterRaise(err)]

InBody(r) ==
    pc[r] \in {"select", "verify", "flush", "add_commit", "refresh", "update", "ret"}

(* ------------------------- the units of work -------------------------- *)

\* variant: the unique index makes no insert wait
InsertBlocked_never(r, email) == FALSE

\* another open transaction has flushed a row with this email: the insert
\* waits on the unique index until that transaction ends
InsertBlocked(r, email) ==
    \E o \in Requests \ {r} : get_by_email(pend[o], email) # {}

\* the first statement of every flow is a SELECT by email: create's
\* existing-user check (dao/crud user.py, lines 19-24) or authenticate's
\* lookup and the checks of authenticate_user, lines 70-94
Select(r) ==
    /\ pc[r] = "select"
    /\ CanRun(r)
    /\ conn' = [conn EXCEPT ![r] = ConnOf(r)]
    /\ IF req[r].kind = "login"
         THEN LET found == authenticate(View(r), req[r].email, req[r].password)
                  err == LoginError(found)
              IN IF err # "none"
                   THEN Raises(r, err, "none") /\ UNCHANGED result
                   ELSE /\ result' = [result EXCEPT ![r] =
                                        { LoginResponse(u) : u \in found }]
                        /\ pc' = [pc EXCEPT ![r] = "update"]
                        /\ UNCHANGED <<bodyErr, outErr, cause>>
         ELSE IF get_by_email(View(r), req[r].email) # {}
                THEN Raises(r, "HTTP400_EmailAlreadyRegistered", "none")
                     /\ UNCHANGED result
                ELSE /\ pc' = [pc EXCEPT ![r] =
                                 IF req[r].kind = "register" THEN "flush"
                                 ELSE "add_commit"]
                     /\ UNCHANGED <<result, bodyErr, outErr, cause>>
    /\ UNCHANGED <<mgrVars, authVars, db, req, sess, held, pend, pendLogin, calls, acqLife>>

\* QueuePool: no connection within pool_timeout while the pool is saturated
PoolTimeout(r) ==
    /\ pc[r] \in {"select", "refresh"}
    /\ conn[r] = 0
    /\ ~HasCapacity(CurrentPool(sess[r]))
    /\ Raises(r, Surfaced(req[r].kind, "PoolExhausted"), "PoolExhausted")
    /\ UNCHANGED <<mgrVars, authVars, db, req, sess, held, conn, pend, pendLogin, result, calls,
                   acqLife>>

\* dao/user.py create, lines 26-42, then register_user, lines 39-42:
\* db.add and db.flush send the INSERT inside the open transaction
Flush(r) ==
    /\ pc[r] = "flush"
    /\ ~InsertBlocked(r, req[r].email)
    /\ IF get_by_email(db, req[r].email) # {}
         THEN /\ Raises(r, Surfaced(req[r].kind, "IntegrityError"), "IntegrityError")
              /\ UNCHANGED <<pend, result>>
         ELSE LET u == NewUser(r, req[r].email, req[r].password)
              IN /\ pend' = [pend EXCEPT ![r] = @ \cup {u}]
                 /\ result' = [result EXCEPT ![r] = {PublicUser(u)}]
                 /\ pc' = [pc EXCEPT ![r] = "ret"]
                 /\ UNCHANGED <<bodyErr, outErr, cause>>
    /\ UNCHANGED <<mgrVars, authVars, db, req, sess, held, conn, pendLogin, calls, acqLife>>

\* crud/user.py create, lines 26-41: db.add, then db.commit() inside the unit
\* of work; the commit returns the connection to the pool
AddCommit(r) ==
    /\ pc[r] = "add_commit"
    /\ ~InsertBlocked(r, req[r].email)
    /\ IF get_by_email(db, req[r].email) # {}
         THEN /\ Raises(r, Surfaced(req[r].kind, "IntegrityError"), "IntegrityError")
              /\ UNCHANGED <<db, conn, calls>>
         ELSE /\ db' = db \cup {NewUser(r, req[r].email, req[r].password)}
              /\ conn' = [conn EXCEPT ![r] = 0]
              /\ calls' = [calls EXCEPT ![r].bodyCommit = @ + 1]
              /\ pc' = [pc EXCEPT ![r] = "refresh"]
              /\ UNCHANGED <<bodyErr, outErr, cause>>
    /\ UNCHANGED <<mgrVars, authVars, req, sess, held, pend, pendLogin, result, acqLife>>

\* crud/user.py create, lines 42-43: db.refresh re-reads the row and returns it
Refresh(r) ==
    /\ pc[r] = "refresh"
    /\ CanRun(r)
    /\ conn' = [conn EXCEPT ![r] = ConnOf(r)]
    /\ result' = [result EXCEPT ![r] =
                    { PublicUser(u) : u \in get_by_email(View(r), req[r].email) }]
    /\ pc' = [pc EXCEPT ![r] = "ret"]
    /\ UNCHANGED <<mgrVars, authVars, db, req, sess, held, pend, pendLogin, bodyErr, outErr,
                   cause, calls, acqLife>>

\* authenticate_user, lines 96-108. _update_last_login sends the UPDATE in the
\* open transaction. When it succeeds, db.refresh re-reads the row and the
\* envelope is returned. When the statement fails, _update_last_login logs a
\* warning and returns (lines 128-131), but the failed statement has aborted
\* the transaction, so the db.refresh of line 98 raises; "except Exception"
\* (lines 112-117) turns that into HTTPException 500 and nothing is returned
UpdateLastLogin(r) ==
    /\ pc[r] = "update"
    /\ \E ok \in BOOLEAN :
         IF ok
           THEN /\ pendLogin' = [pendLogin EXCEPT ![r] =
                                   @ \cup { x.user.user_id : x \in result[r] }]
                /\ pc' = [pc EXCEPT ![r] = "ret"]
                /\ UNCHANGED <<result, bodyErr, outErr, cause>>
           ELSE /\ Raises(r, Surfaced(req[r].kind, "InFailedSqlTransaction"),
                          "LastLoginUpdateFailed")
                /\ result' = [result EXCEPT ![r] = {}]
                /\ UNCHANGED pendLogin
    /\ UNCHANGED <<mgrVars, authVars, db, req, sess, held, conn, pend, calls, acqLife>>

\* get_current_user, lines 143-177: verify_token, then user_dao.get called
\* with the keyword user_id; the SELECT needs a connection only if the call
\* gets as far as db.execute
CurrentUser(r) ==
    /\ pc[r] = "verify"
    /\ LET td == verify_token(token[r], now)
           got == get(View(r), "user_id", td.user_id)
           queried == td.kind = "TokenData" /\ got.raised = "none"
           err == CurrentUserError(td, got)
       IN /\ queried => CanRun(r)
          /\ conn' = [conn EXCEPT ![r] = IF queried THEN ConnOf(r) ELSE @]
          /\ tokenData' = [tokenData EXCEPT ![r] = td]
          /\ IF err # "none"
               THEN Raises(r, err, CurrentUserCause(td, got)) /\ UNCHANGED result
               ELSE /\ result' = [result EXCEPT ![r] =
                                    { PublicUser(u) : u \in got.rows }]
                    /\ pc' = [pc EXCEPT ![r] = "ret"]
                    /\ UNCHANGED <<bodyErr, outErr, cause>>
    /\ UNCHANGED <<mgrVars, now, token, served, probe, db, req, sess, held, pend, pendLogin,
                   calls, acqLife>>

\* the unit of work raises after the service returned (the endpoint's own
\* code, the response model)
BodyRaise(r) ==
    /\ pc[r] = "ret"
    /\ Raises(r, "UnitOfWorkError", "none")
    /\ UNCHANGED <<mgrVars, authVars, db, req, sess, held, conn, pend, pendLogin, result, calls,
                   acqLife>>

\* the request's task is cancelled while suspended inside the unit of work:
\* CancelledError is thrown at the yield of get_session
Cancel(r) ==
    /\ InBody(r)
    /\ Raises(r, "CancelledError", "none")
    /\ UNCHANGED <<mgrVars, authVars, db, req, sess, held, conn, pend, pendLogin, result, calls,
                   acqLife>>

(* ------------- get_session, lines 234-243: leaving the scope ---------- *)

\* line 236: the unit of work completed; session.commit() succeeds, or raises
\* and is caught by line 238
Commit(r) ==
    /\ pc[r] = "ret"
    /\ calls' = [calls EXCEPT ![r].commit = @ + 1]
    /\ \/ /\ db' = Committed(r)
          /\ pend' = [pend EXCEPT ![r] = {}]
          /\ pendLogin' = [pendLogin EXCEPT ![r] = {}]
          /\ conn' = [conn EXCEPT ![r] = 0]
          /\ pc' = [pc EXCEPT ![r] = "close"]
          /\ UNCHANGED outErr
       \/ /\ outErr' = [outErr EXCEPT ![r] = "CommitError"]
          /\ pc' = [pc EXCEPT ![r] = "rollback"]
          /\ UNCHANGED <<db, pend, pendLogin, conn>>
    /\ UNCHANGED <<mgrVars, authVars, req, sess, held, result, bodyErr, cause, acqLife>>

\* variant: a failed rollback leaves the scope at once
AfterRollback_skip(ok) == IF ok THEN "close" ELSE "done"

\* lines 240-243: whether rollback() returns or raises, finally runs close()
AfterRollback(ok) == "close"

\* lines 238-241: session.rollback(), then the bare raise re-raises the caught
\* error; a rollback that raises replaces it
Rollback(r) ==
    /\ pc[r] = "rollback"
    /\ calls' = [calls EXCEPT ![r].rollback = @ + 1]
    /\ \E ok \in BOOLEAN :
         /\ pc' = [pc EXCEPT ![r] = AfterRollback(ok)]
         /\ IF ok
              THEN /\ pend' = [pend EXCEPT ![r] = {}]
                   /\ pendLogin' = [pendLogin EXCEPT ![r] = {}]
                   /\ conn' = [conn EXCEPT ![r] = 0]
                   /\ UNCHANGED outErr
              ELSE /\ outErr' = [outErr EXCEPT ![r] = "RollbackError"]
                   /\ UNCHANGED <<pend, pendLogin, conn>>
    /\ UNCHANGED <<mgrVars, authVars, db, req, sess, held, result, bodyErr, cause, acqLife>>

\* session.close(): the connection goes back to its pool
ReleasedConn(c) == 0

\* line 243: session.close() ends the open transaction without committing it
\* and releases the connection; the exception in flight, if any, goes on to
\* the caller
Close(r) ==
    /\ pc[r] = "close"
    /\ calls' = [calls EXCEPT ![r].close = @ + 1]
    /\ pend' = [pend EXCEPT ![r] = {}]
    /\ pendLogin' = [pendLogin EXCEPT ![r] = {}]
    /\ conn' = [conn EXCEPT ![r] = ReleasedConn(conn[r])]
    /\ held' = [held EXCEPT ![r] = 0]
    /\ pc' = [pc EXCEPT ![r] = "done"]
    /\ UNCHANGED <<mgrVars, authVars, db, req, sess, result, bodyErr, outErr, cause,
                   acqLife>>

(* --------------------------- specification ---------------------------- *)

\* the manager as constructed (database.py, lines 130-133 and 263)
InitManager ==
    /\ engine = 0
    /\ sessionFactory = 0
    /\ isInitialized = FALSE
    /\ closePc = "idle"
    /\ disposed = [e \in Engines |-> FALSE]
    /\ initCalls = 0
    /\ closeCalls = 0
    /\ warnings = 0
    /\ lifecycle = "Uninitialized"

\* the manager once lifespan's startup has called init_db (main.py, line 27)
StartedManager ==
    /\ engine = 1
    /\ sessionFactory = 1
    /\ isInitialized = TRUE
    /\ closePc = "idle"
    /\ disposed = [e \in Engines |-> FALSE]
    /\ initCalls = 1
    /\ closeCalls = 0
    /\ warnings = 0
    /\ lifecycle = "Initialized"

\* no request has arrived
InitRequests ==
    /\ db = InitUsers
    /\ pc = [r \in Requests |-> "new"]
    /\ req = [r \in Requests |-> Payload("none", "", "")]
    /\ sess = [r \in Requests |-> 0]
    /\ conn = [r \in Requests |-> 0]
    /\ pend = [r \in Requests |-> {}]
    /\ pendLogin = [r \in Requests |-> {}]
    /\ result = [r \in Requests |-> {}]
    /\ bodyErr = [r \in Requests |-> "none"]
    /\ outErr = [r \in Requests |-> "none"]
    /\ cause = [r \in Requests |-> "none"]
    /\ calls = [r \in Requests |->
                  [commit |-> 0, rollback |-> 0, close |-> 0, bodyCommit |-> 0]]
    /\ acqLife = [r \in Requests |-> "none"]
    /\ now = 0
    /\ token = [r \in Requests |-> NoToken]
    /\ tokenData = [r \in Requests |-> [kind |-> "unset", user_id |-> 0]]
    /\ served = [registered |-> {}, logins |-> {}]
    /\ held = [r \in Requests |-> 0]

Init == InitManager /\ InitRequests /\ probe = NoProbe

\* the process from construction: init_db and close are called around
\* requests that register through the service
Next ==
    \/ InitDb
    \/ CloseBegin
    \/ CloseFinish
    \/ \E r \in Requests : Acquire(r, CorePayloads, {NoToken})
    \/ \E r \in Requests : Select(r)
    \/ \E r \in Requests : PoolTimeout(r)
    \/ \E r \in Requests : Flush(r)
    \/ \E r \in Requests : BodyRaise(r)
    \/ \E r \in Requests : Cancel(r)
    \/ \E r \in Requests : Commit(r)
    \/ \E r \in Requests : Rollback(r)
    \/ \E r \in Requests : Close(r)

Spec == Init /\ [][Next]_vars

\* tokens made outside a login of this run: a string that is no JWT, and
\* tokens signed with the process secret at time 0 that carry the purpose
\* "refresh", a subject of decimal digits, no subject, the deactivated
\* account 2 (issued before it was deactivated) and an account that is gone
ForeignTokens ==
    LET t == create_access_token(1, ACCESS_TOKEN_EXPIRE_MINUTES, 0)
    IN { [NoToken EXCEPT !.form = "garbage"],
         [t EXCEPT !.type = "refresh"],
         [t EXCEPT !.sub = <<"digits", 1>>],
         [t EXCEPT !.sub = <<"absent", 0>>],
         create_access_token(2, ACCESS_TOKEN_EXPIRE_MINUTES, 0),
         create_access_token(0, ACCESS_TOKEN_EXPIRE_MINUTES, 0) }

InitServing == StartedManager /\ InitRequests /\ probe = NoProbe

\* the process between startup and shutdown: requests of every payload,
\* through the service and through the crud repository, and requests for
\* /me with a token made elsewhere
NextServing ==
    \/ \E r \in Requests : Acquire(r, Payloads, ForeignTokens)
    \/ \E r \in Requests : Select(r)
    \/ \E r \in Requests : PoolTimeout(r)
    \/ \E r \in Requests : Flush(r)
    \/ \E r \in Requests : AddCommit(r)
    \/ \E r \in Requests : Refresh(r)
    \/ \E r \in Requests : UpdateLastLogin(r)
    \/ \E r \in Requests : CurrentUser(r)
    \/ \E r \in Requests : BodyRaise(r)
    \/ \E r \in Requests : Cancel(r)
    \/ \E r \in Requests : Commit(r)
    \/ \E r \in Requests : Rollback(r)
    \/ \E r \in Requests : Close(r)

SpecServing == InitServing /\ [][NextServing]_vars

(* ------------------ clients, tokens and the clock --------------------- *)

\* the lifetime of an access token in seconds
TTL == ACCESS_TOKEN_EXPIRE_MINUTES * 60

\* the instants the clock takes: the start, a token's last valid second and
\* the second after it
Times == {0, TTL, TTL + 1}

\* time passes
Tick ==
    /\ \E t \in Times : t > now /\ now' = t
    /\ UNCHANGED <<mgrVars, db, reqVars, token, tokenData, served, probe>>

\* the request has been answered: the client keeps what a successful register
\* or login returned, and the worker takes the next request
NextRequest(r) ==
    /\ pc[r] = "done"
    /\ served' =
         IF outErr[r] # "none" THEN served
         ELSE IF req[r].kind = "register"
                THEN [served EXCEPT !.registered = @ \cup result[r]]
         ELSE IF req[r].kind = "login"
                THEN [served EXCEPT !.logins = @ \cup result[r]]
         ELSE served
    /\ pc' = [pc EXCEPT ![r] = "new"]
    /\ req' = [req EXCEPT ![r] = Payload("none", "", "")]
    /\ sess' = [sess EXCEPT ![r] = 0]
    /\ result' = [result EXCEPT ![r] = {}]
    /\ bodyErr' = [bodyErr EXCEPT ![r] = "none"]
    /\ outErr' = [outErr EXCEPT ![r] = "none"]
    /\ cause' = [cause EXCEPT ![r] = "none"]
    /\ calls' = [calls EXCEPT ![r] =
                   [commit |-> 0, rollback |-> 0, close |-> 0, bodyCommit |-> 0]]
    /\ acqLife' = [acqLife EXCEPT ![r] = "none"]
    /\ token' = [token EXCEPT ![r] = NoToken]
    /\ tokenData' = [tokenData EXCEPT ![r] = [kind |-> "unset", user_id |-> 0]]
    /\ UNCHANGED <<mgrVars, db, conn, pend, pendLogin, now, held, probe>>

\* the tokens logins have handed to clients
IssuedTokens == { x.access_token : x \in served.logins }

\* a token whose signature bytes were altered
Altered(t) == [t EXCEPT !.key = "altered"]

\* what a client may send as its bearer token
PresentableTokens ==
    IssuedTokens \cup { Altered(t) : t \in IssuedTokens } \cup ForeignTokens

\* the requests that serve them
AuthWorkers == 1..NumAuthWorkers

\* register, login and /me for one new account
AuthPayloads ==
    { Payload("register", "c@x.com", "Abcdef12"),
      Payload("login", "c@x.com", "Abcdef12"),
      Payload("me", "", "") }

\* the process between startup and shutdown, serving clients that register,
\* log in and then present tokens to /me
NextAuth ==
    \/ Tick
    \/ \E r \in AuthWorkers : NextRequest(r)
    \/ \E r \in AuthWorkers : Acquire(r, AuthPayloads, PresentableTokens)
    \/ \E r \in AuthWorkers : Select(r)
    \/ \E r \in AuthWorkers : Flush(r)
    \/ \E r \in AuthWorkers : UpdateLastLogin(r)
    \/ \E r \in AuthWorkers : CurrentUser(r)
    \/ \E r \in AuthWorkers : Commit(r)
    \/ \E r \in AuthWorkers : Rollback(r)
    \/ \E r \in AuthWorkers : Close(r)

SpecAuth == InitServing /\ [][NextAuth]_vars

(* ------------------------- direct calls ------------------------------- *)

\* UserRegistrationRequest.password (dto/user.py, lines 43-67): 8 to 100
\* characters with an upper-case letter, a lower-case letter and a digit
HasCharIn(v, chars) == \E i \in 1..Len(v) : SubSeq(v, i, i) \in chars

ValidPassword(v) ==
    /\ Len(v) >= 8
    /\ Len(v) <= 100
    /\ HasCharIn(v, {"A", "B", "X", "Y"})
    /\ HasCharIn(v, {"a", "b", "c", "d", "e", "f", "g", "h", "w"})
    /\ HasCharIn(v, {"0", "1", "2", "3", "4"})

\* 72 characters
LongPrefix == "Abcdefgh12Abcdefgh12Abcdefgh12Abcdefgh12Abcdefgh12Abcdefgh12Abcdefgh12Ab"

\* passwords a client may choose: two short ones, two of 73 characters that
\* differ in the last one, one of 72 characters, one of 101 and one with no
\* digit
CandidatePasswords ==
    { "Abcdef12", "Abcdef13", LongPrefix, LongPrefix \o "X", LongPrefix \o "Y",
      LongPrefix \o "Abcdefgh12Abcdefgh12Abcdefgh1", "Abcdefgh" }

PasswordInputs == { v \in CandidatePasswords : ValidPassword(v) }

\* the salts bcrypt may draw
Salts == {1, 2}

\* a password is hashed and an attempt is then verified against the hash
HashVerifyInputs ==
    { [fn |-> "verify_password", password |-> v, attempt |-> a, salt |-> n,
       stage |-> "called"] :
        v \in PasswordInputs, a \in PasswordInputs, n \in Salts }

\* create_password_hash, lines 31-35
HashPassword ==
    /\ probe.fn = "verify_password"
    /\ probe.stage = "called"
    /\ probe' = [fn |-> "verify_password", password |-> probe.password,
                 attempt |-> probe.attempt, salt |-> probe.salt,
                 stage |-> "hashed",
                 hashed_password |->
                     create_password_hash(probe.password, probe.salt)]
    /\ UNCHANGED <<mgrVars, db, reqVars, now, token, tokenData, served>>

\* verify_password, lines 38-42
VerifyPassword ==
    /\ probe.fn = "verify_password"
    /\ probe.stage = "hashed"
    /\ probe' = [fn |-> "verify_password", password |-> probe.password,
                 attempt |-> probe.attempt, salt |-> probe.salt,
                 stage |-> "verified",
                 hashed_password |-> probe.hashed_password,
                 verified |->
                     verify_password(probe.attempt, probe.hashed_password)]
    /\ UNCHANGED <<mgrVars, db, reqVars, now, token, tokenData, served>>

\* lifetimes a caller may pass as expires_delta, in minutes: negative ones,
\* none or zero, the smallest positive one and the configured one
ExpiryInputs == {-ACCESS_TOKEN_EXPIRE_MINUTES, -1, 0, 1, ACCESS_TOKEN_EXPIRE_MINUTES}

\* a token is issued for a user at some instant
TokenInputs ==
    { [fn |-> "create_access_token", user_id |-> u, expires_minutes |-> m,
       t |-> t, stage |-> "called"] :
        u \in {1, 2}, m \in ExpiryInputs, t \in {0, TTL} }

\* create_access_token, lines 45-70
IssueToken ==
    /\ probe.fn = "create_access_token"
    /\ probe.stage = "called"
    /\ probe' = [fn |-> "create_access_token", user_id |-> probe.user_id,
                 expires_minutes |-> probe.expires_minutes, t |-> probe.t,
                 stage |-> "returned",
                 token |-> create_access_token(probe.user_id,
                                               probe.expires_minutes, probe.t)]
    /\ UNCHANGED <<mgrVars, db, reqVars, now, token, tokenData, served>>

\* generate_request_id (request_context.py, lines 12-15) when uuid4 draws
\* uuid_str: the id is stored in request_id_context and returned
generate_request_id(uuid_str) ==
    [request_id_context |-> uuid_str, returned |-> uuid_str]

\* request.headers.get("X-Request-ID", default)
HeadersGet(header, default) == IF header = "absent" THEN default ELSE header

\* a request arrives with or without an X-Request-ID header of its own, uuid4
\* will draw uuid_str, and the rest of the application answers or raises
MiddlewareInputs ==
    { [fn |-> "request_id_middleware", header |-> h, uuid_str |-> u,
       raises |-> x, stage |-> "called", request_id_context |-> "None"] :
        h \in {"absent", "client-id-1", "uuid-1"}, u \in {"uuid-1", "uuid-2"},
        x \in BOOLEAN }

\* request_id_middleware, lines 73-79: the arguments of headers.get are
\* evaluated before the call, so generate_request_id runs for every request;
\* request_started is logged with the id in request_id_context (logging.py,
\* lines 8-14)
MiddlewareEnter ==
    /\ probe.fn = "request_id_middleware"
    /\ probe.stage = "called"
    /\ LET generated == generate_request_id(probe.uuid_str)
       IN probe' = [fn |-> "request_id_middleware", header |-> probe.header,
                    uuid_str |-> probe.uuid_str, raises |-> probe.raises,
                    stage |-> "started",
                    request_id_context |-> generated.request_id_context,
                    request_id |-> HeadersGet(probe.header, generated.returned),
                    logged_request_id |-> generated.request_id_context]
    /\ UNCHANGED <<mgrVars, db, reqVars, now, token, tokenData, served>>

\* request_id_middleware, lines 80-103: call_next returns the response and
\* the header is set from the local request_id, or call_next raises and the
\* exception is logged and raised again
MiddlewareLeave ==
    /\ probe.fn = "request_id_middleware"
    /\ probe.stage = "started"
    /\ probe' = [fn |-> "request_id_middleware", header |-> probe.header,
                 uuid_str |-> probe.uuid_str, raises |-> probe.raises,
                 stage |-> IF probe.raises THEN "raised" ELSE "responded",
                 request_id_context |-> probe.request_id_context,
                 request_id |-> probe.request_id,
                 logged_request_id |-> probe.request_id_context,
                 response_header |->
                     IF probe.raises THEN "absent" ELSE probe.request_id]
    /\ UNCHANGED <<mgrVars, db, reqVars, now, token, tokenData, served>>

ProbeInputs == HashVerifyInputs \cup TokenInputs \cup MiddlewareInputs

\* one direct call, with arguments of the caller's choice
InitCalls == StartedManager /\ InitRequests /\ probe \in ProbeInputs

NextCalls ==
    \/ HashPassword
    \/ VerifyPassword
    \/ IssueToken
    \/ MiddlewareEnter
    \/ MiddlewareLeave

SpecCalls == InitCalls /\ [][NextCalls]_vars

(* ------------------------------ properties ---------------------------- *)

Capacity == DB_POOL_SIZE + DB_MAX_OVERFLOW

\* r's scope has returned to its caller
Returned(r) == pc[r] = "done" /\ sess[r] # 0

\* r's session is handed out and its scope has not returned
InUse(r) == sess[r] # 0 /\ pc[r] # "done"

\* no committed row carries a write of request r
NoWritesOf(r) == \A u \in db : u.user_id # NewUserId(r) /\ u.last_login # r

\* C1: a scope whose unit of work completed is committed; a scope whose unit
\* of work raised an error is rolled back and hands its caller that very error
C1_OriginalErrorReachesCaller ==
    \A r \in Requests :
        Returned(r) =>
            /\ bodyErr[r] = "none" => calls[r].commit = 1
            /\ (bodyErr[r] # "none" /\ IsException(bodyErr[r])) =>
                   (calls[r].rollback = 1 /\ outErr[r] = bodyErr[r])

\* C2: once a unit of work has failed, a fresh session reads none of its writes
C2_FailedWorkLeavesNoWrites ==
    \A r \in Requests :
        (Returned(r) /\ outErr[r] # "none") => NoWritesOf(r)

\* the part of C2 the dao repository keeps: a failed unit of work that only
\* flushed (register, login) leaves no write behind
FlushedWorkLeavesNoWrites ==
    \A r \in Requests :
        (Returned(r) /\ outErr[r] # "none" /\ calls[r].bodyCommit = 0)
            => NoWritesOf(r)

\* C3: get_session never commits a cancelled unit of work; when its scope has
\* returned the session is closed, its connection released, its open
\* transaction gone, and nothing it had flushed is in the table
C3_CancelledNeverCommits ==
    \A r \in Requests :
        bodyErr[r] = "CancelledError" =>
            /\ calls[r].commit = 0
            /\ pc[r] = "done" =>
                 /\ calls[r].close = 1
                 /\ conn[r] = 0
                 /\ pend[r] = {} /\ pendLogin[r] = {}
                 /\ outErr[r] = "CancelledError"
                 /\ calls[r].bodyCommit = 0 => NoWritesOf(r)

\* a registration cancelled after its INSERT was flushed has returned
C3_Witness ==
    \E r \in Requests :
        /\ bodyErr[r] = "CancelledError" /\ pc[r] = "done"
        /\ req[r].kind = "register" /\ result[r] # {}

\* C4: whenever a scope has returned, close() was called on its session and
\* the session holds no connection
C4_ClosedOnEveryExit ==
    \A r \in Requests :
        Returned(r) => (calls[r].close = 1 /\ conn[r] = 0)

\* a scope has returned after its commit raised and then its rollback raised
C4_Witness ==
    \E r \in Requests :
        /\ Returned(r) /\ calls[r].commit = 1 /\ calls[r].rollback = 1
        /\ outErr[r] = "RollbackError"

\* C5: get_session entered before init_db or after close() fails with the
\* not-initialized error and creates no session; a session is created only by
\* an initialized manager
C5_SessionOnlyWhileInitialized ==
    \A r \in Requests :
        /\ acqLife[r] \in {"Uninitialized", "Closed"} =>
              (outErr[r] = "NotInitialized" /\ sess[r] = 0 /\ pc[r] = "done")
        /\ sess[r] # 0 => acqLife[r] \in {"Initialized", "Closing"}

\* one request was refused before init_db, another after close(), and close()
\* had followed a working manager
C5_Witness ==
    \E r1, r2 \in Requests :
        /\ acqLife[r1] = "Uninitialized" /\ outErr[r1] = "NotInitialized"
        /\ acqLife[r2] = "Closed" /\ outErr[r2] = "NotInitialized"

\* C6: when close() reaches Closed, no session still in use holds a connection
\* it checked out of the pool of the engine being closed before the dispose
C6_CloseDrains ==
    [][(closePc = "disposing" /\ lifecycle' = "Closed") =>
          \A r \in Requests : ~(InUse(r) /\ conn[r] = 2 * engine - 1)]_vars

\* C7: a connection is checked out of a pool only while fewer than
\* pool_size + max_overflow of that pool's connections are checked out, and
\* an acquisition times out only while waiting on a saturated pool
C7_PoolBound ==
    [][\A r \in Requests :
          /\ (conn[r] = 0 /\ conn'[r] # 0) => CheckedOut(conn'[r]) < Capacity
          /\ (cause[r] # "PoolExhausted" /\ cause'[r] = "PoolExhausted") =>
                 /\ conn[r] = 0 /\ conn'[r] = 0
                 /\ CheckedOut(CurrentPool(sess[r])) >= Capacity]_vars

\* with every connection of the pool held by one session, a second session's
\* acquisition has timed out
C7_Witness ==
    \E r1, r2 \in Requests :
        /\ conn[r1] # 0 /\ CheckedOut(conn[r1]) = Capacity
        /\ cause[r2] = "PoolExhausted" /\ conn[r2] = 0
        /\ CurrentPool(sess[r2]) = conn[r1]

\* C8: an init_db call on an initialized manager leaves the engine, the
\* session factory and the flag as they were
C8_InitIdempotent ==
    [][(initCalls' = initCalls + 1 /\ isInitialized) =>
          UNCHANGED <<engine, sessionFactory, isInitialized>>]_vars

\* init_db was called on an initialized manager
C8_Witness == warnings >= 1 /\ isInitialized /\ initCalls >= 2

\* C9: a login holds a token only if the table has an active row with the
\* login's email whose stored hash the login's password verifies, and the
\* token names that row
C9_TokenOnlyForVerifiedActive ==
    \A r \in Requests :
        (req[r].kind = "login" /\ result[r] # {}) =>
            \A x \in result[r] :
                \E u \in db :
                    /\ u.email = req[r].email
                    /\ verify_password(req[r].password, u.hashed_password)
                    /\ u.is_active
                    /\ x.access_token.sub = SubOf(u.user_id)

\* a login has succeeded and its scope returned
C9_Witness ==
    \E r \in Requests :
        /\ req[r].kind = "login" /\ result[r] # {}
        /\ pc[r] = "done" /\ outErr[r] = "none"

\* the rows the email and password of r match
Matches(r) ==
    { u \in db : u.email = req[r].email
                 /\ verify_password(req[r].password, u.hashed_password) }

\* C10: when a login's lookup runs, it fails with InvalidCredentials exactly
\* if no row matches email and password, with InactiveAccount exactly if the
\* matching row is deactivated, and goes on otherwise
C10_LoginFailureOrder ==
    [][\A r \in Requests :
          (req[r].kind = "login" /\ pc[r] = "select" /\ pc'[r] # "select"
             /\ conn'[r] # 0) =>
                /\ Matches(r) = {} <=> bodyErr'[r] = "HTTP401_InvalidCredentials"
                /\ (\E u \in Matches(r) : ~u.is_active)
                       <=> bodyErr'[r] = "HTTP400_InactiveAccount"
                /\ (\E u \in Matches(r) : u.is_active) <=> result'[r] # {}]_vars

\* a login with a wrong password for the deactivated account was refused with
\* InvalidCredentials
C10_Witness ==
    \E r \in Requests :
        /\ req[r] = Payload("login", "b@x.com", "wrong1234")
        /\ bodyErr[r] = "HTTP401_InvalidCredentials"

\* C11: a login whose last-login update failed after authentication and token
\* issuance succeeded does not fail: it raises nothing and keeps its envelope
C11_LastLoginFailureSwallowed ==
    \A r \in Requests :
        cause[r] = "LastLoginUpdateFailed" =>
            (bodyErr[r] = "none" /\ result[r] # {})

\* C12: a register call whose existing-email check runs when a committed row
\* already has its email fails with the duplicate-email error, and neither
\* that step nor any later step of the failed call changes the table
C12_SecondRegisterRejected ==
    [][\A r \in Requests :
          /\ (req[r].kind = "register" /\ pc[r] = "select" /\ pc'[r] # "select"
                 /\ conn'[r] # 0 /\ \E u \in db : u.email = req[r].email) =>
                (bodyErr'[r] = "HTTP400_EmailAlreadyRegistered" /\ db' = db)
          /\ (bodyErr[r] = "HTTP400_EmailAlreadyRegistered" /\ pc'[r] # pc[r]) =>
                db' = db]_vars

\* one register call for c@x.com has committed its row and returned; a second
\* one for the same email was refused as a duplicate and has returned, and the
\* row is the one the first call inserted
C12_Witness ==
    \E r1, r2 \in Requests :
        /\ r1 # r2
        /\ req[r1] = Payload("register", "c@x.com", "Abcdef12") /\ req[r2] = req[r1]
        /\ pc[r1] = "done" /\ outErr[r1] = "none"
        /\ pc[r2] = "done" /\ bodyErr[r2] = "HTTP400_EmailAlreadyRegistered"
        /\ get_by_email(db, "c@x.com") = {NewUser(r1, "c@x.com", "Abcdef12")}

\* C13: a register call whose INSERT hits the unique constraint on email is
\* refused with the same duplicate-email error as the existing-email check
C13_RaceLoserGetsDuplicateEmail ==
    \A r \in Requests :
        (req[r].kind = "register" /\ cause[r] = "IntegrityError") =>
            bodyErr[r] = "HTTP400_EmailAlreadyRegistered"

\* C14: no two committed rows of the users table have the same email
C14_EmailUnique ==
    \A u, v \in db : u.email = v.email => u = v

\* two register calls for c@x.com both passed the existing-email check; one
\* committed its row and the other's INSERT was refused by the unique index
C14_Witness ==
    \E r1, r2 \in Requests :
        /\ r1 # r2
        /\ req[r1].kind \in {"register", "crud_register"}
        /\ req[r2].kind \in {"register", "crud_register"}
        /\ NewUser(r1, "c@x.com", "Abcdef12") \in db
        /\ cause[r2] = "IntegrityError"

\* r's call of get_current_user runs in this step
Resolves(r) ==
    pc[r] = "verify" /\ pc'[r] # "verify" /\ tokenData'[r].kind # "unset"

\* the token passes every check at the current time: it is a JWT signed with
\* the process secret, its expiry has not passed, its purpose is "access"
PassesChecks(t) ==
    t.form = "jwt" /\ t.key = "SECRET_KEY" /\ ~(t.exp < now) /\ t.type = "access"

\* C15: verify_token yields claims only for a token that passes every check,
\* and a token that fails one check is rejected with no claims
C15_ClaimsOnlyIfAllChecksPass ==
    [][\A r \in Requests :
          Resolves(r) =>
             /\ tokenData'[r].kind = "TokenData" => PassesChecks(token[r])
             /\ ~PassesChecks(token[r]) => tokenData'[r] = NoTokenData]_vars

\* a token with the purpose "refresh", signed with the process secret and not
\* expired, was rejected
C15_Witness ==
    \E r \in Requests :
        /\ token[r].type = "refresh" /\ token[r].key = "SECRET_KEY"
        /\ ~(token[r].exp < now)
        /\ tokenData[r] = NoTokenData

\* C16: verifying a token in the second a login issued it yields claims whose
\* subject id is the id the login gave to the issuer, with purpose "access"
C16_IssueVerifyRoundTrip ==
    [][\A r \in Requests :
          Resolves(r) =>
             \A x \in served.logins :
                (x.access_token = token[r] /\ token[r].iat = now) =>
                   /\ tokenData'[r].kind = "TokenData"
                   /\ tokenData'[r].user_id = x.user.user_id
                   /\ token[r].type = "access"]_vars

\* the committed rows a token names as its subject
SubjectRows(t) == { u \in db : SubOf(u.user_id) = t.sub }

\* C17: get_current_user fails with InvalidCredentials for every token that
\* fails verification and for a valid token whose subject has no row, and
\* with InactiveAccount for a valid token whose subject is deactivated
C17_UniformInvalidCredentials ==
    [][\A r \in Requests :
          Resolves(r) =>
             LET t == token[r]
             IN /\ ~PassesChecks(t) =>
                      bodyErr'[r] = "HTTP401_InvalidCredentials"
                /\ (PassesChecks(t) /\ t.sub[1] = "uuid_text"
                      /\ SubjectRows(t) = {}) =>
                      bodyErr'[r] = "HTTP401_InvalidCredentials"
                /\ (PassesChecks(t) /\ \E u \in SubjectRows(t) : ~u.is_active) =>
                      bodyErr'[r] = "HTTP400_InactiveAccount"]_vars

\* C18: get_current_user called with the unexpired token of a login, for an
\* account registered before that login, returns the public representation
\* the registration returned
C18_CurrentUserAfterRegisterLogin ==
    [][\A r \in Requests :
          Resolves(r) =>
             \A x \in served.logins, reg \in served.registered :
                (x.access_token = token[r] /\ ~(token[r].exp < now)
                   /\ reg.user_id = x.user.user_id) =>
                      (bodyErr'[r] = "none" /\ result'[r] = {reg})]_vars

\* the names and the text values of a public representation give away
\* neither the stored hash nor the password
NoSecretIn(rep, password) ==
    /\ DOMAIN rep \cap {"hashed_password", "password", "confirm_password"} = {}
    /\ rep.email # password

\* the public representation inside a result
PublicPartOf(x) == IF "user" \in DOMAIN x THEN x.user ELSE x

\* C19: no result a request holds and no response a client received carries
\* the stored password hash or the password
C19_NoHashInResults ==
    /\ \A r \in Requests : \A x \in result[r] :
          /\ NoSecretIn(PublicPartOf(x), req[r].password)
          /\ DOMAIN x \cap {"hashed_password", "password"} = {}
    /\ \A x \in served.registered \cup { y.user : y \in served.logins } :
          NoSecretIn(x, "Abcdef12")

\* a client has received the response of a register and of a login
C19_Witness ==
    /\ \E x \in served.registered : x.email = "c@x.com"
    /\ \E y \in served.logins : y.user.email = "c@x.com"

\* C20: a login's envelope has token_type "bearer" and expires_in equal to
\* the configured minutes times 60, which is the lifetime of the returned
\* token: 1800 for the default of 30 minutes
C20_ExpiresInSeconds ==
    \A x \in served.logins \cup UNION { result[r] : r \in
                                           { q \in Requests : req[q].kind = "login" } } :
        /\ x.token_type = "bearer"
        /\ x.expires_in = ACCESS_TOKEN_EXPIRE_MINUTES * 60
        /\ x.access_token.exp - x.access_token.iat = x.expires_in
        /\ ACCESS_TOKEN_EXPIRE_MINUTES = 30 => x.expires_in = 1800

\* a client holds the envelope of a login made after the clock had advanced
C20_Witness ==
    \E x \in served.logins : x.access_token.iat > 0 /\ x.expires_in = 1800

\* C21  For every valid password p, verify_password(p, create_password_hash(p))
\* is true, and for every valid p2 other than p,
\* verify_password(p2, create_password_hash(p)) is false.
C21_VerifyAcceptsExactlyThePassword ==
    (probe.fn = "verify_password" /\ probe.stage = "verified")
        => (probe.verified <=> probe.attempt = probe.password)

\* C22  An unexpected (non-HTTP) failure raised inside register_user,
\* authenticate_user or get_current_user leaves the service only as the
\* opaque HTTP 500 with its fixed detail: the failure itself never does.
C22_InternalFailuresOpaque ==
    \A r \in Requests :
        (req[r].kind \in {"register", "login", "me"} /\ cause[r] # "none")
            => bodyErr[r] = "HTTP500_Internal"

\* a login whose last_login update broke the transaction and a /me whose
\* token subject is no integer have both been answered
C22_Witness ==
    \E r1, r2 \in Requests :
        /\ req[r1].kind = "login" /\ cause[r1] = "LastLoginUpdateFailed"
        /\ req[r2].kind = "me" /\ cause[r2] = "ValueError"
        /\ bodyErr[r1] = "HTTP500_Internal" /\ bodyErr[r2] = "HTTP500_Internal"
        /\ pc[r1] = "done" /\ pc[r2] = "done"

\* C23  Every session get_session handed out is ended exactly once: exactly
\* one of commit and rollback is performed on it, never both and never
\* neither, and it is closed exactly once.
C23_ExactlyOneEnding ==
    \A r \in Requests :
        Returned(r) =>
            /\ calls[r].commit + calls[r].rollback = 1
            /\ calls[r].close = 1

\* C24  The manager's lifecycle only moves Uninitialized -> Initialized ->
\* Closed: once close has completed, no later init_db makes the manager
\* initialized again.
C24_ClosedIsFinal ==
    [][lifecycle = "Closed" => (lifecycle' = "Closed" /\ ~isInitialized')]_vars

\* C25  Each request owns at most one session: no session object is held by
\* two requests at once, and none is still held once its request has ended.
C25_SessionPerRequest ==
    \A r1 \in Requests :
        /\ \A r2 \in Requests \ {r1} : held[r1] # 0 => held[r1] # held[r2]
        /\ pc[r1] \in {"new", "done"} => held[r1] = 0
        /\ held[r1] # 0 => sess[r1] # 0

\* one request finished and gave its session up
\* while another holds its own inside its unit of work
C25_Witness ==
    \E r1, r2 \in Requests :
        /\ Returned(r1) /\ calls[r1].close = 1 /\ held[r1] = 0
        /\ InUse(r2) /\ InBody(r2) /\ held[r2] # 0
        /\ acqLife[r1] = "Initialized" /\ conn[r2] # 0

\* C26  Every token create_access_token returns, whatever expires_delta it
\* was given (very small, zero or negative included), carries an expiry
\* strictly greater than its issued-at time.
C26_ExpiryAfterIssue ==
    (probe.fn = "create_access_token" /\ probe.stage = "returned")
        => probe.token.exp > probe.token.iat

\* C27  verify_token is total: for every token it returns TokenData or None
\* and never raises, also for a correctly signed, unexpired access token
\* whose subject is not the text of an integer.
C27_VerifyTokenNeverRaises ==
    \A r \in Requests : tokenData[r].kind \in {"unset", "None", "TokenData"}

\* C28  Once close() has begun disposing the engine, a get_session call
\* interleaved with it (during the await on dispose) fails with
\* not-initialized and returns no session bound to that engine.
C28_NoSessionWhileClosing ==
    \A r \in Requests :
        acqLife[r] = "Closing" => (outErr[r] = "NotInitialized" /\ sess[r] = 0)

\* a login that cannot succeed (no active row matches its email and password),
\* a login that failed with InvalidCredentials or InactiveAccount, or a /me
ReadOnlyRequest(r) ==
    \/ req'[r].kind = "me"
    \/ /\ req'[r].kind = "login"
       /\ bodyErr'[r] \in {"HTTP401_InvalidCredentials", "HTTP400_InactiveAccount"}
    \/ /\ req[r].kind = "login"
       /\ ~ \E u \in Matches(r) : u.is_active

\* C29  A login that fails with InvalidCredentials or InactiveAccount, and any
\* get_current_user call, leaves every row of users as it was, last_login
\* included: no step of such a request changes the table, and it ends with
\* nothing flushed.
C29_FailedLoginAndMeWriteNothing ==
    [][\A r \in Requests :
          (pc'[r] # pc[r] /\ ReadOnlyRequest(r)) =>
              /\ db' = db
              /\ pc'[r] = "done" => (pend'[r] = {} /\ pendLogin'[r] = {})]_vars

\* a login of the deactivated account and a /me whose token was examined
\* have both been answered and rolled back
C29_Witness ==
    \E r1, r2 \in Requests :
        /\ req[r1].kind = "login" /\ bodyErr[r1] = "HTTP400_InactiveAccount"
        /\ req[r2].kind = "me" /\ tokenData[r2].kind # "unset"
        /\ Returned(r1) /\ Returned(r2)
        /\ calls[r1].rollback = 1 /\ calls[r2].rollback = 1
        /\ db = InitUsers

\* C30  For every request, one that supplies its own X-Request-ID header
\* included, the id returned in the response's X-Request-ID header equals
\* the id held in the request context, the one attached to its log lines.
C30_ResponseIdIsContextId ==
    (probe.fn = "request_id_middleware" /\ probe.stage = "responded")
        => /\ probe.response_header = probe.request_id_context
           /\ probe.response_header = probe.logged_request_id

====
